---- MODULE Spec2Model ----
(***************************************************************************)
(* A model of tools/export_site.py, the static-site exporter of a Delphi   *)
(* Forums scrape.                                                          *)
(*                                                                         *)
(* Representation                                                          *)
(*   - a Python str is a sequence of one-character strings; the 40 hex     *)
(*     characters of a SHA-1 digest are one atomic element of such a       *)
(*     sequence (see sha1_hexdigest);                                      *)
(*   - an Optional value is a sequence of length 0 (None, or an absent     *)
(*     mapping key) or 1 (the value);                                      *)
(*   - a datetime is a natural number; DT_MIN and DT_MAX are datetime.min  *)
(*     and datetime.max;                                                   *)
(*   - a thread identifier is a positive integer whose order stands for    *)
(*     the str order of the identifiers;                                   *)
(*   - a rendered page is a record of the values the template is filled    *)
(*     with, not the markup around them.                                   *)
(***************************************************************************)
EXTENDS Integers, Sequences, FiniteSets, TLC

VARIABLES
    store,            \* the input tree: threads/, profiles/, files/
    dest,             \* the destination tree (files and directories)
    pc,               \* position of main(), or of the function under test
    run,              \* 1 for the first export, 2 for the repeated one
    cursor,           \* index of the running for-loop of main()
    threads,          \* main(): the list `threads`
    profile_lookup,   \* main(): the dict `profile_lookup`
    folder_sections,  \* main(): the list `folder_sections`
    index_html,       \* main(): the rendered index, held until written
    exit,             \* "running", "ok", "abort" (SystemExit), "crash" (exception)
    written,          \* output paths this run has produced
    snapshot,         \* the destination tree as it was when this run began
    arg,              \* argument of the function under test
    ret               \* its result

vars == <<store, dest, pc, run, cursor, threads, profile_lookup, folder_sections,
          index_html, exit, written, snapshot, arg, ret>>

-----------------------------------------------------------------------------
(* Optional values and Python truthiness *)

None == <<>>

Some(v) == <<v>>

IsNone(x) == Len(x) = 0

\* bool(x) for an Optional str / list / mapping value: None and "" / [] are falsy
Truthy(x) == Len(x) = 1 /\ Len(x[1]) > 0

\* Python's `x or d`
OrElse(x, d) == IF Truthy(x) THEN x[1] ELSE d

\* bool(x) for an Optional int-like value (a thread identifier)
TruthyInt(x) == Len(x) = 1 /\ x[1] # 0

Min(a, b) == IF a <= b THEN a ELSE b

Max(a, b) == IF a >= b THEN a ELSE b

-----------------------------------------------------------------------------
(* Characters *)

UPPER == <<"A","B","C","D","E","F","G","H","I","J","K","L","M",
           "N","O","P","Q","R","S","T","U","V","W","X","Y","Z">>

LOWER == <<"a","b","c","d","e","f","g","h","i","j","k","l","m",
           "n","o","p","q","r","s","t","u","v","w","x","y","z">>

DIGITS == <<"0","1","2","3","4","5","6","7","8","9">>

Range(s) == {s[i] : i \in DOMAIN s}

\* code-point order of the characters the model uses
CharOrder == <<"\n", " ", "!", "&", "(", ")", ",", "-", ".", "/">> \o DIGITS
             \o <<";", "<", "=", ">", "?">> \o UPPER \o <<"_">> \o LOWER

Ord(c) == CHOOSE i \in DOMAIN CharOrder : CharOrder[i] = c

\* str.lower() on one character
LowerChar(c) ==
    IF c \in Range(UPPER) THEN LOWER[CHOOSE i \in DOMAIN UPPER : UPPER[i] = c] ELSE c

\* str.lower()
Lower(s) == [i \in DOMAIN s |-> LowerChar(s[i])]

\* s < t for Python str
RECURSIVE StrLess(_, _)
StrLess(s, t) ==
    IF Len(t) = 0 THEN FALSE
    ELSE IF Len(s) = 0 THEN TRUE
    ELSE IF s[1] = t[1] THEN StrLess(Tail(s), Tail(t))
    ELSE Ord(s[1]) < Ord(t[1])

\* all strings over alphabet A of length at most n
Strs(A, n) == UNION {[1..k -> A] : k \in 0..n}

-----------------------------------------------------------------------------
(* slugify *)

SlugChars == Range(LOWER) \cup Range(DIGITS)

\* re.sub(r"[^a-z0-9]+", "-", s): every maximal run of other characters
\* becomes one "-"
RECURSIVE SubNonSlug(_, _)
SubNonSlug(s, inRun) ==
    IF Len(s) = 0 THEN <<>>
    ELSE IF s[1] \in SlugChars THEN <<s[1]>> \o SubNonSlug(Tail(s), FALSE)
    ELSE IF inRun THEN SubNonSlug(Tail(s), TRUE)
    ELSE <<"-">> \o SubNonSlug(Tail(s), TRUE)

\* str.strip(c) for a one-character c
RECURSIVE LStrip(_, _)
LStrip(s, c) == IF Len(s) > 0 /\ s[1] = c THEN LStrip(Tail(s), c) ELSE s

RECURSIVE RStrip(_, _)
RStrip(s, c) ==
    IF Len(s) > 0 /\ s[Len(s)] = c THEN RStrip(SubSeq(s, 1, Len(s) - 1), c) ELSE s

Strip(s, c) == RStrip(LStrip(s, c), c)

FORUM == <<"f","o","r","u","m">>

slugify(value) ==
    IF Len(value) = 0 THEN FORUM
    ELSE LET slug == Strip(SubNonSlug(Lower(value), FALSE), "-")
         IN  IF Len(slug) = 0 THEN FORUM ELSE slug

-----------------------------------------------------------------------------
(* hash_for_url *)

\* the characters [./?&=\-] that HASH_EXT_RE's class excludes
HASH_EXT_EXCLUDED == {".", "/", "?", "&", "=", "-"}

\* the {1,5} of HASH_EXT_RE
HASH_EXT_MAX == 5

\* `$` without re.MULTILINE: the end of the string, or just before a newline
\* that is the string's last character
AtDollar(u, pos) ==
    \/ pos = Len(u)
    \/ pos = Len(u) - 1 /\ u[Len(u)] = "\n"

\* the same with {1,4} for {1,5}
HashExtLensShort(u, i) ==
    {k \in 1..(HASH_EXT_MAX - 1) :
        /\ i + k <= Len(u)
        /\ \A j \in (i + 1)..(i + k) : u[j] \notin HASH_EXT_EXCLUDED
        /\ AtDollar(u, i + k)}

\* lengths k for which \.[^./?&=\-]{k}$ matches u from position i
HashExtLens(u, i) ==
    {k \in 1..HASH_EXT_MAX :
        /\ i + k <= Len(u)
        /\ \A j \in (i + 1)..(i + k) : u[j] \notin HASH_EXT_EXCLUDED
        /\ AtDollar(u, i + k)}

HashExtMatchesAt(u, i) == u[i] = "." /\ HashExtLens(u, i) # {}

MinOf(S) == CHOOSE x \in S : \A o \in S : x <= o

MaxOf(S) == CHOOSE x \in S : \A o \in S : x >= o

\* the match that starts at the leftmost of `starts`; the quantifier is greedy
LeftmostMatch(u, starts) ==
    IF starts = {} THEN None
    ELSE Some([start |-> MinOf(starts),
               end |-> MinOf(starts) + MaxOf(HashExtLens(u, MinOf(starts)))])

\* HASH_EXT_RE.search(u): None, or the span of group 1
HASH_EXT_RE_search(u) == LeftmostMatch(u, {i \in 1..Len(u) : HashExtMatchesAt(u, i)})

\* hashlib.sha1(p).hexdigest(): forty characters of [0-9a-f], kept as one
\* element that names the hashed text (SHA-1 taken as collision-free)
sha1_hexdigest(p) == ToString(p)

\* lines 650-657, given the result of the search
HashWithMatch(url, match) ==
    IF IsNone(match) THEN <<sha1_hexdigest(url)>>
    ELSE <<sha1_hexdigest(SubSeq(url, 1, match[1].start - 1))>>
         \o SubSeq(url, match[1].start, match[1].end)

hash_for_url(url) == HashWithMatch(url, HASH_EXT_RE_search(url))

-----------------------------------------------------------------------------
(* Finite maps (dict, and a directory's files by name) *)

EmptyMap == [k \in {} |-> None]

Put(f, k, v) == [x \in (DOMAIN f) \cup {k} |-> IF x = k THEN v ELSE f[x]]

\* dict.get(k)
Get(f, k) == IF k \in DOMAIN f THEN Some(f[k]) ELSE None

\* str.replace(old, new) for a non-empty old: leftmost, non-overlapping
RECURSIVE StrReplace(_, _, _)
StrReplace(s, old, new) ==
    IF Len(s) < Len(old) THEN s
    ELSE IF SubSeq(s, 1, Len(old)) = old
         THEN new \o StrReplace(SubSeq(s, Len(old) + 1, Len(s)), old, new)
         ELSE <<s[1]>> \o StrReplace(Tail(s), old, new)

-----------------------------------------------------------------------------
(* parse_date *)

\* datetime.min and datetime.max; every parsed time lies strictly between them
DT_MIN == 0

DT_MAX == 9999

\* A raw date string is "" (<<>>), a string of the form
\* "%a %b %d %H:%M:%S %Y" that denotes the time t (<<"ts", t>>), or a string
\* that no pattern matches (<<"?">>). The second pattern, with %e, is a bad
\* directive for strptime: its ValueError is caught like a failed match.
WellFormedDate(raw) == Len(raw) = 2 /\ raw[1] = "ts"

parse_date(raw) ==
    IF ~Truthy(raw) THEN None
    ELSE IF WellFormedDate(raw[1]) THEN Some(raw[1][2])
    ELSE None

-----------------------------------------------------------------------------
(* ensure_local_asset *)

FILES_SLASH == <<"f","i","l","e","s","/">>

DOT_DOT_SLASH == <<".",".","/">>

\* Path.exists() of store_files / hashed_name
SourceExists(st, hashed_name) == st.files_dir /\ hashed_name \in DOMAIN st.files

\* the copy of line 676-677: skipped when the destination file exists
CopyIfAbsent(d, st, hashed_name) ==
    IF hashed_name \in DOMAIN d.files THEN d.files
    ELSE Put(d.files, hashed_name, st.files[hashed_name])

NotFound(d) == [local |-> None, dest |-> d, name |-> None]

\* lines 670-678, given the hashed name
EnsureHashed(hashed_name, st, d) ==
    IF ~SourceExists(st, hashed_name) THEN NotFound(d)
    ELSE [local |-> Some(FILES_SLASH \o hashed_name),
          dest  |-> [d EXCEPT !.dirs = @ \cup {"files"},
                              !.files = CopyIfAbsent(d, st, hashed_name)],
          name  |-> Some(hashed_name)]

\* url is an Optional str; the result is the returned Optional path (and the
\* hashed name in it) and the destination tree after the call
ensure_local_asset(url, st, d) ==
    IF ~Truthy(url) THEN NotFound(d) ELSE EnsureHashed(hash_for_url(url[1]), st, d)

-----------------------------------------------------------------------------
(* profiles *)

PROFILE_LABELS == <<"Member Since", "Last visit", "Location", "Interests">>

\* a profile is a function from labels to values; "" is a falsy value
build_profile_lookup(st) == IF ~st.profiles_dir THEN EmptyMap ELSE st.profiles

\* name is the Optional str msg.get("from")
profile_key_from_name(name) ==
    IF ~Truthy(name) THEN None
    ELSE Some([i \in DOMAIN name[1] |-> IF name[1][i] = "/" THEN "_" ELSE name[1][i]])

\* the label/value pairs shown, in the order of the allow-list
describe_profile(profile) ==
    IF IsNone(profile) \/ DOMAIN profile[1] = {} THEN <<>>
    ELSE LET shown(i) == PROFILE_LABELS[i] \in DOMAIN profile[1]
                         /\ profile[1][PROFILE_LABELS[i]] # ""
             F[i \in 0..Len(PROFILE_LABELS)] ==
                 IF i = 0 THEN <<>>
                 ELSE IF shown(i)
                      THEN Append(F[i - 1], <<PROFILE_LABELS[i], profile[1][PROFILE_LABELS[i]]>>)
                      ELSE F[i - 1]
         IN  F[Len(PROFILE_LABELS)]

-----------------------------------------------------------------------------
(* format_name_html *)

\* what \s matches, of the characters used here
IsSpace(c) == c \in {" ", "\n"}

\* str.strip()
StripSpace(s) ==
    LET kept == {i \in DOMAIN s : ~IsSpace(s[i])}
    IN  IF kept = {} THEN <<>> ELSE SubSeq(s, MinOf(kept), MaxOf(kept))

\* str.rstrip()
RStripSpace(s) ==
    LET kept == {i \in DOMAIN s : ~IsSpace(s[i])}
    IN  IF kept = {} THEN <<>> ELSE SubSeq(s, 1, MaxOf(kept))

\* html.escape(s)
RECURSIVE html_escape(_)
html_escape(s) ==
    IF Len(s) = 0 THEN <<>>
    ELSE (CASE s[1] = "&" -> <<"&","a","m","p",";">>
            [] s[1] = "<" -> <<"&","l","t",";">>
            [] s[1] = ">" -> <<"&","g","t",";">>
            [] s[1] = "\"" -> <<"&","q","u","o","t",";">>
            [] s[1] = "'" -> <<"&","#","x","2","7",";">>
            [] OTHER -> <<s[1]>>) \o html_escape(Tail(s))

UNKNOWN == <<"U","n","k","n","o","w","n">>

AUTHOR_CLASS == "msg-author-name"

RECIPIENT_CLASS == "msg-recipient-name"

UNREAD == <<"u","n","r","e","a","d">>

SPACE_UNREAD == <<" ">> \o UNREAD

EndsWith(s, suffix) ==
    Len(s) >= Len(suffix) /\ SubSeq(s, Len(s) - Len(suffix) + 1, Len(s)) = suffix

CountOf(s, c) == Cardinality({i \in DOMAIN s : s[i] = c})

\* lines 552-559: primary and extra of a raw name that is not empty
SplitParenthetical(raw) ==
    IF EndsWith(raw, <<")">>) /\ CountOf(raw, "(") > 0
    THEN LET idx == MinOf({i \in DOMAIN raw : raw[i] = "("})
             segment == StripSpace(SubSeq(raw, idx, Len(raw)))
             before == StripSpace(SubSeq(raw, 1, idx - 1))
         IN  IF CountOf(segment, "(") = CountOf(segment, ")")
             THEN [primary |-> IF Len(before) > 0 THEN before ELSE raw, extra |-> segment]
             ELSE [primary |-> raw, extra |-> <<>>]
    ELSE [primary |-> raw, extra |-> <<>>]

\* lines 560-571: the three spans, local_status being the status after
\* line 551; a span that is not rendered is None
NameSpans(primary_class, split, local_status) ==
    [class |-> primary_class,
     primary |-> html_escape(split.primary),
     extra |-> IF Len(split.extra) > 0 THEN Some(html_escape(split.extra)) ELSE None,
     status |-> IF ~Truthy(local_status) THEN None
                ELSE IF Lower(local_status[1]) = UNREAD THEN Some(UNREAD)
                ELSE Some(html_escape(local_status[1]))]

\* lines 543-559, raw being the result of line 543
NameOfRaw(raw, primary_class, status) ==
    IF Len(raw) = 0
    THEN NameSpans(primary_class, [primary |-> UNKNOWN, extra |-> <<>>], status)
    ELSE IF ~Truthy(status) /\ EndsWith(Lower(raw), SPACE_UNREAD)
         THEN NameSpans(primary_class,
                        SplitParenthetical(RStripSpace(SubSeq(raw, 1, Len(raw) - Len(UNREAD)))),
                        Some(UNREAD))
         ELSE NameSpans(primary_class, SplitParenthetical(raw), status)

format_name_html(name, primary_class, status) ==
    NameOfRaw(StripSpace(OrElse(name, <<>>)), primary_class, status)

-----------------------------------------------------------------------------
(* timestamps on the pages *)

\* A formatted timestamp is the pattern with the timestamp it was applied
\* to.
format_date_short(timestamp) ==
    IF IsNone(timestamp) THEN None ELSE Some(<<"%-m/%d/%y", timestamp[1]>>)

format_time_component(timestamp) == <<"%-I:%M%p", timestamp>>

format_folder_date(timestamp) ==
    IF IsNone(timestamp) THEN UNKNOWN ELSE <<"%m/%d/%Y", timestamp[1]>>

N_A == <<"N","/","A">>

\* lines 859-860
thread_date_display(timestamp) ==
    IF IsNone(timestamp) THEN N_A ELSE <<"%b %d, %Y %I:%M %p", timestamp[1]>>

\* lines 946-953, posted_dt being the result of line 947: the text of the
\* msg-date-time span, None when the span is not rendered. A raw date that
\* was not parsed is shown as it is.
TimestampOf(posted_raw, posted_dt) ==
    IF ~IsNone(posted_dt)
    THEN Some(format_date_short(posted_dt)[1] \o <<" ">> \o format_time_component(posted_dt[1]))
    ELSE IF Len(StripSpace(posted_raw)) = 0 THEN None ELSE Some(html_escape(StripSpace(posted_raw)))

timestamp_text(date) == TimestampOf(OrElse(date, <<>>), parse_date(Some(OrElse(date, <<>>))))

-----------------------------------------------------------------------------
(* render_messages *)

UNKNOWN_ID == <<"u","n","k","n","o","w","n">>

ALL == <<"A","l","l">>

MSG_DASH == <<"m","s","g","-">>

\* the same without the replacement
AnchorKeepingDots(mid) == MSG_DASH \o mid

\* f"msg-{mid.replace('.', '-')}"
Anchor(mid) == MSG_DASH \o [i \in DOMAIN mid |-> IF mid[i] = "." THEN "-" ELSE mid[i]]

\* Lines 962-974 for one attachment, res being the result of line 961.
\* html.escape(None) raises AttributeError: at line 964 when neither name nor
\* href gives a label, at line 973 when the link target is None.
AttachmentItem(attachment, res) ==
    LET href == attachment.href
        label == IF Truthy(attachment.name) THEN attachment.name ELSE href
        size == IF Truthy(attachment.size) THEN attachment.size ELSE None
    IN  IF IsNone(label) THEN [crashed |-> TRUE, dest |-> res.dest, name |-> res.name]
        ELSE IF Truthy(res.local)
             THEN [crashed |-> FALSE, dest |-> res.dest, name |-> res.name,
                   item |-> [href |-> DOT_DOT_SLASH \o res.local[1], label |-> label[1],
                             size |-> size, download |-> TRUE, remote |-> FALSE]]
             ELSE IF IsNone(href)
                  THEN [crashed |-> TRUE, dest |-> res.dest, name |-> res.name]
                  ELSE [crashed |-> FALSE, dest |-> res.dest, name |-> res.name,
                        item |-> [href |-> href[1], label |-> label[1],
                                  size |-> size, download |-> FALSE, remote |-> TRUE]]

\* one pass of the loop of lines 959-974
RenderAttachment(attachment, st, d) ==
    AttachmentItem(attachment, ensure_local_asset(attachment.href, st, d))

AddName(names, name) == IF IsNone(name) THEN names ELSE names \cup {name[1]}

\* the loop of lines 959-974 from the k-th attachment on; r is the result of
\* the k-th pass
RECURSIVE RenderAttachments(_, _, _, _, _, _)
RECURSIVE AttachmentsAfter(_, _, _, _, _, _)
AttachmentsAfter(atts, k, st, items, names, r) ==
    IF r.crashed
    THEN [crashed |-> TRUE, dest |-> r.dest, items |-> items, names |-> AddName(names, r.name)]
    ELSE RenderAttachments(atts, k + 1, st, r.dest, Append(items, r.item),
                           AddName(names, r.name))

RenderAttachments(atts, k, st, d, items, names) ==
    IF k > Len(atts) THEN [crashed |-> FALSE, dest |-> d, items |-> items, names |-> names]
    ELSE AttachmentsAfter(atts, k, st, items, names, RenderAttachment(atts[k], st, d))

\* the loop of lines 984-987 from the k-th image on; r is the result of
\* line 985 for the k-th image
RECURSIVE RewriteImages(_, _, _, _, _, _)
RECURSIVE ImagesAfter(_, _, _, _, _, _)
ImagesAfter(images, k, st, content_html, names, r) ==
    IF Truthy(r.local)
    THEN RewriteImages(images, k + 1, st, r.dest,
                       StrReplace(content_html, images[k], DOT_DOT_SLASH \o r.local[1]),
                       AddName(names, r.name))
    ELSE RewriteImages(images, k + 1, st, r.dest, content_html, names)

RewriteImages(images, k, st, d, content_html, names) ==
    IF k > Len(images) THEN [dest |-> d, content |-> content_html, names |-> names]
    ELSE ImagesAfter(images, k, st, content_html, names,
                     ensure_local_asset(Some(images[k]), st, d))

\* lines 989-992
ProfileHtml(msg, lookup) ==
    IF ~Truthy(msg.from) THEN <<>>
    ELSE describe_profile(Get(lookup, profile_key_from_name(msg.from)[1]))

\* the article of lines 994-1055
Article(msg, index, total, lookup, content_html, items) ==
    [anchor |-> Anchor(OrElse(msg.id, UNKNOWN_ID)), mid |-> OrElse(msg.id, UNKNOWN_ID),
     index |-> index, total |-> total, seq_href |-> Anchor(OrElse(msg.id, UNKNOWN_ID)),
     raw_author |-> OrElse(msg.from, UNKNOWN), from_status |-> msg.from_status,
     raw_recipient |-> OrElse(msg.to, ALL), to_status |-> msg.to_status,
     author |-> format_name_html(Some(OrElse(msg.from, UNKNOWN)), AUTHOR_CLASS, msg.from_status),
     recipient |-> format_name_html(Some(OrElse(msg.to, ALL)), RECIPIENT_CLASS, msg.to_status),
     posted_raw |-> OrElse(msg.date, <<>>),
     posted_dt |-> parse_date(Some(OrElse(msg.date, <<>>))),
     timestamp |-> timestamp_text(msg.date),
     content |-> content_html, attachments |-> items,
     profile |-> ProfileHtml(msg, lookup),
     reply_to |-> IF Truthy(msg.in_reply_to)
                  THEN Some([href |-> Anchor(msg.in_reply_to[1]),
                             text |-> msg.in_reply_to[1]])
                  ELSE None]

MessageWithImages(msg, index, total, lookup, items, imgs) ==
    [crashed |-> FALSE, dest |-> imgs.dest, names |-> imgs.names,
     article |-> Article(msg, index, total, lookup, imgs.content, items)]

MessageWithAttachments(msg, index, total, lookup, st, atts) ==
    IF atts.crashed THEN [crashed |-> TRUE, dest |-> atts.dest, names |-> atts.names]
    ELSE MessageWithImages(msg, index, total, lookup, atts.items,
             RewriteImages(OrElse(msg.images, <<>>), 1, st, atts.dest,
                           OrElse(msg.content, <<>>), atts.names))

\* One pass of the loop of lines 935-1055. names are the hashed names that
\* ensure_local_asset returned a path for.
RenderMessage(msg, index, total, lookup, st, d) ==
    MessageWithAttachments(msg, index, total, lookup, st,
        RenderAttachments(OrElse(msg.attachments, <<>>), 1, st, d, <<>>, {}))

\* render_messages from the index-th message on: the articles, the
\* destination tree with the copied binaries, and whether an exception ended
\* it; r is the result of the index-th pass
RECURSIVE RenderFrom(_, _, _, _, _, _, _)
RECURSIVE RenderAfter(_, _, _, _, _, _, _)
\* the same with the article put before the earlier ones
RenderAfterPrepending(messages, index, lookup, st, rendered, names, r) ==
    IF r.crashed
    THEN [crashed |-> TRUE, dest |-> r.dest, rendered |-> rendered,
          names |-> names \cup r.names]
    ELSE RenderFrom(messages, index + 1, lookup, st, r.dest,
                    <<r.article>> \o rendered, names \cup r.names)

RenderAfter(messages, index, lookup, st, rendered, names, r) ==
    IF r.crashed
    THEN [crashed |-> TRUE, dest |-> r.dest, rendered |-> rendered,
          names |-> names \cup r.names]
    ELSE RenderFrom(messages, index + 1, lookup, st, r.dest,
                    Append(rendered, r.article), names \cup r.names)

RenderFrom(messages, index, lookup, st, d, rendered, names) ==
    IF index > Len(messages)
    THEN [crashed |-> FALSE, dest |-> d, rendered |-> rendered, names |-> names]
    ELSE RenderAfter(messages, index, lookup, st, rendered, names,
             RenderMessage(messages[index], index, Len(messages), lookup, st, d))

render_messages(messages, lookup, st, d) == RenderFrom(messages, 1, lookup, st, d, <<>>, {})

-----------------------------------------------------------------------------
(* sorting *)

\* sorted(seq, key) / list.sort(key, reverse): a stable sort; Before(a, b) says
\* that a's key is strictly on the near side of b's
StableSort(seq, Before(_, _)) ==
    LET Insert(acc, x) ==
            LET later == {j \in 1..Len(acc) : Before(x, acc[j])}
                pos == IF later = {} THEN Len(acc) + 1
                       ELSE CHOOSE j \in later : \A o \in later : j <= o
            IN  SubSeq(acc, 1, pos - 1) \o <<x>> \o SubSeq(acc, pos, Len(acc))
        F[i \in 0..Len(seq)] == IF i = 0 THEN <<>> ELSE Insert(F[i - 1], seq[i])
    IN  F[Len(seq)]

\* (a1, a2) < (b1, b2) for Python tuples
PairLess(a1, a2, b1, b2) == a1 < b1 \/ (a1 = b1 /\ a2 < b2)

\* `d or dt.datetime.max` / `d or dt.datetime.min` for an Optional datetime
DateOr(d, default) == IF IsNone(d) THEN default ELSE d[1]

\* the same with datetime.min for datetime.max
FolderPageBeforeNoneFirst(a, b) ==
    PairLess(DateOr(a.first_date, DT_MIN), a.id, DateOr(b.first_date, DT_MIN), b.id)

\* key of lines 776-779: (first_date or datetime.max, id), ascending
FolderPageBefore(a, b) ==
    PairLess(DateOr(a.first_date, DT_MAX), a.id, DateOr(b.first_date, DT_MAX), b.id)

\* the same without reverse=True
PreviewBeforeAscending(a, b) ==
    PairLess(DateOr(a.last_date, DT_MIN), a.id, DateOr(b.last_date, DT_MIN), b.id)

\* key of line 1159: (last_date or datetime.min, id), with reverse=True
PreviewBefore(a, b) ==
    PairLess(DateOr(b.last_date, DT_MIN), b.id, DateOr(a.last_date, DT_MIN), a.id)

-----------------------------------------------------------------------------
(* pages *)

INDEX_THREADS_PER_FOLDER == 6

UNCATEGORISED == <<"U","n","c","a","t","e","g","o","r","i","s","e","d">>

RECURSIVE SumCounts(_)
SumCounts(ts) == IF Len(ts) = 0 THEN 0 ELSE ts[1].message_count + SumCounts(Tail(ts))

\* src, here and in the pages, is the stem of the record a value was made
\* from: it is not part of the markup
render_thread_card(thread) ==
    [id |-> thread.id, src |-> thread.src, first_author |-> thread.first_author,
     message_count |-> thread.message_count, last_date |-> thread.last_date]

\* generated is the clock reading of the footer
render_index_html(folders, clock) ==
    LET section(folder) ==
            [name |-> folder.name, href |-> folder.slug,
             cards |-> [i \in 1..Min(INDEX_THREADS_PER_FOLDER, Len(folder.threads)) |->
                          render_thread_card(folder.threads[i])],
             thread_total |-> Len(folder.threads),
             message_total |-> SumCounts(folder.threads)]
        shown == SelectSeq(folders, LAMBDA f : Len(f.threads) > 0)
    IN  [sections |-> [i \in 1..Len(shown) |-> section(shown[i])], generated |-> clock]

\* the same without the subtraction
reply_count_unreduced(thread) == Max(thread.message_count, 0)

\* line 787
reply_count(thread) == Max(thread.message_count - 1, 0)

\* format_folder_date keeps None apart as "Unknown"
render_folder_html(folder, clock) ==
    LET threads_sorted == StableSort(folder.threads, FolderPageBefore)
        row(thread) ==
            [id |-> thread.id, src |-> thread.src, href |-> thread.id,
             first_date |-> thread.first_date,
             date |-> format_folder_date(thread.first_date),
             author |-> OrElse(thread.first_author, UNKNOWN),
             replies |-> reply_count(thread)]
    IN  [name |-> folder.name,
         rows |-> [i \in 1..Len(threads_sorted) |-> row(threads_sorted[i])],
         thread_total |-> Len(folder.threads),
         message_total |-> SumCounts(folder.threads),
         generated |-> clock]

render_thread_html(thread, messages_html) ==
    [id |-> thread.id, src |-> thread.src, folder |-> thread.folder,
     message_count |-> thread.message_count,
     first_date |-> thread.first_date, last_date |-> thread.last_date,
     first_display |-> thread_date_display(thread.first_date),
     last_display |-> thread_date_display(thread.last_date),
     messages |-> messages_html]

\* lines 1146-1155: the dict `folders`, as the list of its values in
\* insertion order
AssembleBuckets(ts) ==
    LET AddTo(acc, thread) ==
            LET folder_name == IF Len(thread.folder) > 0 THEN thread.folder ELSE UNCATEGORISED
                folder_slug == IF Len(thread.folder_slug) > 0 THEN thread.folder_slug
                               ELSE slugify(folder_name)
                hit == {j \in 1..Len(acc) : acc[j].name = folder_name}
            IN  IF hit = {}
                THEN Append(acc, [name |-> folder_name, slug |-> folder_slug,
                                  threads |-> <<thread>>])
                ELSE LET j == CHOOSE x \in hit : TRUE
                     IN  [acc EXCEPT ![j].threads = Append(@, thread)]
        F[i \in 0..Len(ts)] == IF i = 0 THEN <<>> ELSE AddTo(F[i - 1], ts[i])
    IN  F[Len(ts)]

\* lines 1157-1160
SortPreviews(buckets) ==
    [j \in 1..Len(buckets) |->
        [buckets[j] EXCEPT !.threads = StableSort(@, PreviewBefore)]]

\* line 1162
FolderSections(buckets) ==
    StableSort(buckets, LAMBDA a, b : StrLess(Lower(a.name), Lower(b.name)))

-----------------------------------------------------------------------------
(* the stores the export is run on *)

MaxThreads == 2

Runs == 2

U1 == <<"a",".","p">>

U2 == <<"i",".","g">>

BaseMsg ==
    [id |-> Some(<<"1",".","2">>), from |-> Some(<<"A","/","b">>), to |-> Some(<<"B">>),
     from_status |-> None, to_status |-> None, date |-> Some(<<"ts", 1>>),
     content |-> Some(<<"x">> \o U2 \o <<"y">> \o U2), images |-> Some(<<U2>>),
     attachments |-> Some(<<[href |-> Some(U1), name |-> Some(<<"n">>), size |-> Some(<<"1","k">>)]>>),
     in_reply_to |-> None]

ReplyMsg ==
    [BaseMsg EXCEPT !.id = Some(<<"3">>), !.from = Some(<<"B">>), !.date = Some(<<"ts", 2>>),
                    !.content = Some(<<"z">>), !.images = None,
                    !.attachments = Some(<<[href |-> Some(U2), name |-> None, size |-> None],
                                           [href |-> Some(<<>>), name |-> None, size |-> None]>>),
                    !.in_reply_to = Some(<<"1",".","2">>)]

\* a message mapping with no key at all
BareMsg ==
    [id |-> None, from |-> None, to |-> None, from_status |-> None, to_status |-> None,
     date |-> None, content |-> None, images |-> None, attachments |-> None,
     in_reply_to |-> None]

\* a message none of whose patterns match the date
UndatedMsg == [ReplyMsg EXCEPT !.date = Some(<<"?">>), !.attachments = None]

\* a message with an attachment that has no href
NoHrefMsg ==
    [BaseMsg EXCEPT !.attachments =
        Some(<<[href |-> Some(U1), name |-> None, size |-> None],
               [href |-> None, name |-> Some(<<"n">>), size |-> None]>>)]

GE == <<"G","e">>

GE_BANG == <<"g","e","!">>

\* the thread records: thead_id, metadata.folder and messages of one YAML
\* file; the input format has no thead_id key
RecordShapes ==
    { [thead_id |-> None, folder |-> Some(GE), messages |-> Some(<<BaseMsg>>)],
      [thead_id |-> None, folder |-> Some(GE), messages |-> Some(<<BaseMsg, ReplyMsg>>)],
      [thead_id |-> None, folder |-> Some(GE_BANG), messages |-> Some(<<ReplyMsg, UndatedMsg>>)],
      [thead_id |-> None, folder |-> Some(GE_BANG), messages |-> Some(<<>>)],
      [thead_id |-> None, folder |-> None, messages |-> None],
      [thead_id |-> None, folder |-> None, messages |-> Some(<<BareMsg>>)],
      [thead_id |-> None, folder |-> Some(GE), messages |-> Some(<<NoHrefMsg>>)] }

\* the list of thread records in the order of line 1089
RecordLists == UNION {[1..n -> RecordShapes] : n \in 0..MaxThreads}

\* stems[i] is the stem of the i-th file in that order
Ascending(n) == [i \in 1..n |-> i]

\* files/ and profiles/ of the store: absent, complete, or partial
StoreSides ==
    { [files_dir |-> FALSE, files |-> EmptyMap, profiles_dir |-> FALSE, profiles |-> EmptyMap],
      [files_dir |-> TRUE,
       files |-> Put(Put(EmptyMap, hash_for_url(U1), "bin-a"), hash_for_url(U2), "bin-i"),
       profiles_dir |-> TRUE,
       profiles |-> Put(EmptyMap, <<"A","_","b">>,
                        Put(Put(EmptyMap, "Location", "here"), "Interests", ""))],
      [files_dir |-> TRUE, files |-> Put(EmptyMap, hash_for_url(U2), "bin-i"),
       profiles_dir |-> TRUE, profiles |-> EmptyMap] }

Stores ==
    { [threads_dir |-> TRUE, records |-> rs, stems |-> Ascending(Len(rs)),
       files_dir |-> side.files_dir,
       files |-> side.files, profiles_dir |-> side.profiles_dir, profiles |-> side.profiles] :
         rs \in RecordLists, side \in StoreSides }
    \cup
    { [threads_dir |-> FALSE, records |-> <<>>, stems |-> <<>>,
       files_dir |-> side.files_dir,
       files |-> side.files, profiles_dir |-> side.profiles_dir, profiles |-> side.profiles] :
         side \in StoreSides }

\* a file left by an earlier export of another store
StalePage == [stale |-> TRUE]

STYLE_CSS == "STYLE_CSS"

EmptyDest ==
    [dirs |-> {}, css |-> None, index |-> None, threads |-> EmptyMap, folders |-> EmptyMap,
     files |-> EmptyMap]

\* the identifier of a thread of the earlier export that no store here has
StaleId == MaxThreads + 7

StaleDest ==
    [dirs |-> {"root", "threads", "assets", "files", "folders"},
     css |-> Some("old css"), index |-> Some(StalePage),
     threads |-> Put(Put(EmptyMap, 1, StalePage), StaleId, StalePage),
     folders |-> Put(EmptyMap, <<"g","e">>, StalePage),
     files |-> Put(EmptyMap, hash_for_url(U1), "old-bin")]

PriorDests == {EmptyDest, StaleDest}

NothingWritten == [css |-> FALSE, index |-> FALSE, threads |-> {}, folders |-> {}, files |-> {}]

-----------------------------------------------------------------------------
(* main *)

Init ==
    /\ store \in Stores
    /\ dest \in PriorDests
    /\ snapshot = dest
    /\ pc = "start"
    /\ run = 1
    /\ cursor = 1
    /\ threads = <<>>
    /\ profile_lookup = EmptyMap
    /\ folder_sections = <<>>
    /\ index_html = None
    /\ exit = "running"
    /\ written = NothingWritten
    /\ arg = None
    /\ ret = None

\* lines 1068-1069: SystemExit before anything is created
AbortNoThreads ==
    /\ pc = "start"
    /\ ~store.threads_dir
    /\ pc' = "exited"
    /\ exit' = "abort"
    /\ UNCHANGED <<store, dest, run, cursor, threads, profile_lookup, folder_sections,
                   index_html, written, snapshot, arg, ret>>

\* a write that leaves an existing file alone
WriteTextIfAbsent(old, text) == IF IsNone(old) THEN Some(text) ELSE old

\* Path.write_text: the file is created or replaced
WriteText(old, text) == Some(text)

\* lines 1071-1086
Bootstrap ==
    /\ pc = "start"
    /\ store.threads_dir
    /\ dest' = [dest EXCEPT !.dirs = @ \cup {"root", "threads", "assets", "files", "folders"},
                            !.css = WriteText(@, STYLE_CSS)]
    /\ written' = [written EXCEPT !.css = TRUE]
    /\ profile_lookup' = build_profile_lookup(store)
    /\ threads' = <<>>
    /\ cursor' = 1
    /\ pc' = "loop"
    /\ UNCHANGED <<store, run, folder_sections, index_html, exit, snapshot, arg, ret>>

\* lines 1091-1093
processed_messages(data) == OrElse(data.messages, <<>>)

\* line 1099; stem is yaml_path.stem
ThreadId(data, stem) == IF TruthyInt(data.thead_id) THEN data.thead_id[1] ELSE stem

\* lines 1095-1108 and 1130-1143: the dict appended to `threads`
ThreadSummary(data, stem) ==
    LET msgs == processed_messages(data)
        folder == OrElse(data.folder, UNCATEGORISED)
    IN  [id |-> ThreadId(data, stem), src |-> stem, folder |-> folder,
         folder_slug |-> slugify(folder), message_count |-> Len(msgs),
         first_date |-> parse_date(msgs[1].date),
         last_date |-> parse_date(msgs[Len(msgs)].date),
         first_author |-> msgs[1].from]

\* a record without messages is passed over only after its entry was appended
SkipEmptyThreadLate ==
    /\ pc = "loop"
    /\ cursor <= Len(store.records)
    /\ Len(processed_messages(store.records[cursor])) = 0
    /\ threads' = Append(threads,
                     [id |-> ThreadId(store.records[cursor], store.stems[cursor]),
                      src |-> store.stems[cursor],
                      folder |-> OrElse(store.records[cursor].folder, UNCATEGORISED),
                      folder_slug |-> slugify(OrElse(store.records[cursor].folder, UNCATEGORISED)),
                      message_count |-> 0, first_date |-> None, last_date |-> None,
                      first_author |-> None])
    /\ cursor' = cursor + 1
    /\ UNCHANGED <<store, dest, pc, run, profile_lookup, folder_sections,
                   index_html, exit, written, snapshot, arg, ret>>

\* lines 1092-1093: a record without messages is passed over
SkipEmptyThread ==
    /\ pc = "loop"
    /\ cursor <= Len(store.records)
    /\ Len(processed_messages(store.records[cursor])) = 0
    /\ cursor' = cursor + 1
    /\ UNCHANGED <<store, dest, pc, run, threads, profile_lookup, folder_sections,
                   index_html, exit, written, snapshot, arg, ret>>

\* lines 1113-1143, r being what render_messages returned
ThreadRendered(thread, r) ==
    /\ ~r.crashed
    /\ dest' = [r.dest EXCEPT !.threads =
                  Put(@, thread.id,
                      WriteText(Get(@, thread.id), render_thread_html(thread, r.rendered))[1])]
    /\ written' = [written EXCEPT !.threads = @ \cup {thread.id},
                                  !.files = @ \cup r.names]
    /\ threads' = Append(threads, thread)

\* lines 1095-1143, when render_messages returns
ProcessThread ==
    /\ pc = "loop"
    /\ cursor <= Len(store.records)
    /\ Len(processed_messages(store.records[cursor])) > 0
    /\ ThreadRendered(ThreadSummary(store.records[cursor], store.stems[cursor]),
                      render_messages(processed_messages(store.records[cursor]),
                                      profile_lookup, store, dest))
    /\ cursor' = cursor + 1
    /\ UNCHANGED <<store, pc, run, profile_lookup, folder_sections, index_html, exit,
                   snapshot, arg, ret>>

\* the exception leaves what was copied before it
ThreadCrashed(r) ==
    /\ r.crashed
    /\ dest' = r.dest
    /\ written' = [written EXCEPT !.files = @ \cup r.names]

\* lines 1110-1112, when render_messages raises: the exception ends main
CrashInThread ==
    /\ pc = "loop"
    /\ cursor <= Len(store.records)
    /\ Len(processed_messages(store.records[cursor])) > 0
    /\ ThreadCrashed(render_messages(processed_messages(store.records[cursor]),
                                     profile_lookup, store, dest))
    /\ pc' = "exited"
    /\ exit' = "crash"
    /\ UNCHANGED <<store, run, cursor, threads, profile_lookup, folder_sections,
                   index_html, snapshot, arg, ret>>

\* lines 1145-1167
AssembleFolders ==
    /\ pc = "loop"
    /\ cursor > Len(store.records)
    /\ folder_sections' = FolderSections(SortPreviews(AssembleBuckets(threads)))
    /\ index_html' = Some(render_index_html(folder_sections', run))
    /\ cursor' = 1
    /\ pc' = "folders"
    /\ UNCHANGED <<store, dest, run, threads, profile_lookup, exit, written, snapshot,
                   arg, ret>>

\* lines 1169-1173, one pass
WriteFolderPage ==
    /\ pc = "folders"
    /\ cursor <= Len(folder_sections)
    /\ LET folder == folder_sections[cursor] IN
       /\ dest' = [dest EXCEPT !.folders =
                     Put(@, folder.slug,
                         WriteText(Get(@, folder.slug), render_folder_html(folder, run))[1])]
       /\ written' = [written EXCEPT !.folders = @ \cup {folder.slug}]
    /\ cursor' = cursor + 1
    /\ UNCHANGED <<store, pc, run, threads, profile_lookup, folder_sections, index_html,
                   exit, snapshot, arg, ret>>

\* line 1175
WriteIndex ==
    /\ pc = "folders"
    /\ cursor > Len(folder_sections)
    /\ dest' = [dest EXCEPT !.index = WriteText(@, index_html[1])]
    /\ written' = [written EXCEPT !.index = TRUE]
    /\ pc' = "exited"
    /\ exit' = "ok"
    /\ UNCHANGED <<store, run, cursor, threads, profile_lookup, folder_sections,
                   index_html, snapshot, arg, ret>>

\* the export is run again on the same store and destination
Rerun ==
    /\ pc = "exited"
    /\ run < Runs
    /\ run' = run + 1
    /\ snapshot' = dest
    /\ pc' = "start"
    /\ cursor' = 1
    /\ threads' = <<>>
    /\ profile_lookup' = EmptyMap
    /\ folder_sections' = <<>>
    /\ index_html' = None
    /\ exit' = "running"
    /\ written' = NothingWritten
    /\ UNCHANGED <<store, dest, arg, ret>>

Next ==
    \/ AbortNoThreads
    \/ Bootstrap
    \/ SkipEmptyThread
    \/ ProcessThread
    \/ CrashInThread
    \/ AssembleFolders
    \/ WriteFolderPage
    \/ WriteIndex
    \/ Rerun

Spec == Init /\ [][Next]_vars

-----------------------------------------------------------------------------
(* What a run leaves, read off the state *)

Records == 1..Len(store.records)

IsEmptyRecord(i) == Len(processed_messages(store.records[i])) = 0

FolderOf(i) == OrElse(store.records[i].folder, UNCATEGORISED)

WrittenThreadPages == {dest.threads[id] : id \in written.threads}

WrittenFolderPages == {dest.folders[slug] : slug \in written.folders}

\* the sections of the index this run rendered
IndexSections == IF IsNone(index_html) THEN <<>> ELSE index_html[1].sections

RowSrcs(page) == {page.rows[k].src : k \in DOMAIN page.rows}

CardSrcs(section) == {section.cards[k].src : k \in DOMAIN section.cards}

-----------------------------------------------------------------------------
\* C1: a thread record whose message list is empty or absent gets no thread
\* page, no row on any folder page and no card on the index; a folder all of
\* whose threads are empty gets no folder page and no index section.
C1_EmptyThreadsLeaveNoTrace ==
    \A i \in Records : IsEmptyRecord(i) =>
        /\ \A page \in WrittenThreadPages : page.src # store.stems[i]
        /\ \A page \in WrittenFolderPages : store.stems[i] \notin RowSrcs(page)
        /\ \A k \in DOMAIN IndexSections : store.stems[i] \notin CardSrcs(IndexSections[k])
        /\ \A k \in DOMAIN threads : threads[k].src # store.stems[i]
        /\ (\A j \in Records : FolderOf(j) = FolderOf(i) => IsEmptyRecord(j)) =>
               /\ \A page \in WrittenFolderPages : page.name # FolderOf(i)
               /\ \A k \in DOMAIN IndexSections : IndexSections[k].name # FolderOf(i)

\* a completed run on a store with an empty thread, alone in its folder, and
\* a thread with messages
C1_Witness ==
    /\ exit = "ok"
    /\ \E i, j \in Records :
          /\ IsEmptyRecord(i)
          /\ ~IsEmptyRecord(j)
          /\ \A k \in Records : FolderOf(k) = FolderOf(i) => IsEmptyRecord(k)
          /\ store.stems[j] \in {page.src : page \in WrittenThreadPages}

-----------------------------------------------------------------------------
NonEmptyRecords == {i \in Records : ~IsEmptyRecord(i)}

\* C2: without the threads directory the run aborts before anything is
\* created or changed under the destination, and nothing else aborts a run.
C2_AbortOnlyWithoutThreadsDir ==
    /\ (pc = "exited" /\ ~store.threads_dir) =>
           (exit = "abort" /\ dest = snapshot /\ written = NothingWritten)
    /\ (pc = "exited" /\ exit # "ok") => ~store.threads_dir

\* C3: whenever the threads directory exists the run completes and
\* index.html is written, whatever data the store lacks.
C3_RunCompletes ==
    (pc = "exited" /\ store.threads_dir) =>
        (exit = "ok" /\ written.index /\ dest.index = index_html)

\* C4: after a completed run every thread record with messages has exactly
\* one thread page, holding its messages, there are as many thread pages as
\* such records, and the thread is a row of the folder page that the index
\* links to for its folder.
C4_NoThreadDropped ==
    exit = "ok" =>
        /\ \A i \in NonEmptyRecords :
              /\ Cardinality({id \in written.threads :
                                dest.threads[id].src = store.stems[i]}) = 1
              /\ \A id \in written.threads :
                    dest.threads[id].src = store.stems[i] =>
                        Len(dest.threads[id].messages)
                            = Len(processed_messages(store.records[i]))
        /\ Cardinality(written.threads) = Cardinality(NonEmptyRecords)
        /\ \A i \in NonEmptyRecords :
              \E k \in DOMAIN dest.index[1].sections :
                 /\ dest.index[1].sections[k].name = FolderOf(i)
                 /\ dest.index[1].sections[k].href \in written.folders
                 /\ store.stems[i] \in RowSrcs(dest.folders[dest.index[1].sections[k].href])

\* C5: when two folder names have one slug, the page of that slug is the
\* first-seen folder's and lists the threads of both folders.
C5_CollidingFoldersMerged ==
    exit = "ok" =>
        \A i, j \in NonEmptyRecords :
            (/\ i < j
             /\ \A k \in NonEmptyRecords : FolderOf(k) = FolderOf(j) => k > i
             /\ FolderOf(i) # FolderOf(j)
             /\ slugify(FolderOf(i)) = slugify(FolderOf(j))) =>
                /\ slugify(FolderOf(i)) \in written.folders
                /\ dest.folders[slugify(FolderOf(i))].name = FolderOf(i)
                /\ {store.stems[i], store.stems[j]}
                      \subseteq RowSrcs(dest.folders[slugify(FolderOf(i))])

-----------------------------------------------------------------------------
\* a page without the clock reading of its footer
SansClockPage(page) == IF page = StalePage THEN page ELSE [page EXCEPT !.generated = 0]

\* a destination tree without the clock readings
SansClock(d) ==
    [d EXCEPT !.index = IF IsNone(@) THEN @ ELSE Some(SansClockPage(@[1])),
              !.folders = [slug \in DOMAIN @ |-> SansClockPage(@[slug])]]

RecordOfStem(stem) == store.records[CHOOSE i \in Records : store.stems[i] = stem]

\* the thread page the store alone determines for the record of a stem
PageFromStore(stem) ==
    render_thread_html(
        ThreadSummary(RecordOfStem(stem), stem),
        render_messages(processed_messages(RecordOfStem(stem)),
                        build_profile_lookup(store), store, EmptyDest).rendered)

\* the pages and the style sheet this run produced hold what the current
\* store gives, whatever was at their paths before
PagesOverwritten ==
    /\ written.css => dest.css = Some(STYLE_CSS)
    /\ written.index => (dest.index = index_html /\ dest.index[1].generated = run)
    /\ \A slug \in written.folders :
          /\ dest.folders[slug] # StalePage
          /\ dest.folders[slug].generated = run
          /\ \E k \in DOMAIN folder_sections :
                dest.folders[slug] = render_folder_html(folder_sections[k], run)
    /\ \A id \in written.threads :
          /\ dest.threads[id] # StalePage
          /\ dest.threads[id] = PageFromStore(dest.threads[id].src)

\* whatever the run did not produce is as it was
OthersUntouched ==
    /\ ~written.css => dest.css = snapshot.css
    /\ ~written.index => dest.index = snapshot.index
    /\ DOMAIN dest.threads = DOMAIN snapshot.threads \cup written.threads
    /\ \A id \in DOMAIN snapshot.threads \ written.threads :
          dest.threads[id] = snapshot.threads[id]
    /\ DOMAIN dest.folders = DOMAIN snapshot.folders \cup written.folders
    /\ \A slug \in DOMAIN snapshot.folders \ written.folders :
          dest.folders[slug] = snapshot.folders[slug]
    /\ DOMAIN dest.files = DOMAIN snapshot.files \cup written.files
    /\ \A name \in DOMAIN snapshot.files : dest.files[name] = snapshot.files[name]

\* the repeated run leaves what the first left, the clock readings apart
RepeatChangesNothing == run > 1 => SansClock(dest) = SansClock(snapshot)

\* C6 as stated: for any prior contents of the destination, every path a
\* completed run produces, the referenced files/<hashed-name> included, holds content
\* of the current store after the run, and a repeated run changes nothing.
C6_EveryOutputOverwritten ==
    exit = "ok" =>
        /\ PagesOverwritten
        /\ \A name \in written.files : dest.files[name] = store.files[name]
        /\ RepeatChangesNothing

\* C6 as amended: however the run ends, the pages and the style sheet it
\* produces are overwritten with content of the current store; a referenced
\* files/<hashed-name> is copied from the store only when the destination has
\* no file of that name, and a file already there is kept as it is; what the
\* run does not produce is left alone; a repeated run changes nothing but
\* the clock readings.
C6_OverwrittenButBinariesKept ==
    pc = "exited" =>
        /\ PagesOverwritten
        /\ \A name \in written.files :
              dest.files[name] = IF name \in DOMAIN snapshot.files
                                 THEN snapshot.files[name]
                                 ELSE store.files[name]
        /\ OthersUntouched
        /\ RepeatChangesNothing

\* the repeated run has completed over a destination that held an earlier
\* export: the thread page was replaced, the binary of the earlier export was
\* kept although the store has another one of that name
C6_Witness ==
    /\ exit = "ok"
    /\ run = 2
    /\ 1 \in written.threads
    /\ <<"g","e">> \in written.folders
    /\ hash_for_url(U1) \in written.files
    /\ dest.files[hash_for_url(U1)] = "old-bin"
    /\ store.files[hash_for_url(U1)] = "bin-a"

-----------------------------------------------------------------------------
\* whether ensure_local_asset finds the binary of an Optional URL
Resolvable(url) == Truthy(url) /\ SourceExists(store, hash_for_url(url[1]))

LocalPath(url) == DOT_DOT_SLASH \o FILES_SLASH \o hash_for_url(url[1])

\* an attachment item is what the presence of the hashed binary decides
ItemAsDecided(attachment, item) ==
    IF Resolvable(attachment.href)
    THEN /\ item.download /\ ~item.remote
         /\ item.href = LocalPath(attachment.href)
         /\ hash_for_url(attachment.href[1]) \in DOMAIN dest.files
    ELSE /\ item.remote /\ ~item.download
         /\ Some(item.href) = attachment.href
         /\ Truthy(attachment.href) =>
               (hash_for_url(attachment.href[1]) \in DOMAIN dest.files
                   => hash_for_url(attachment.href[1]) \in DOMAIN snapshot.files)

\* the body of a message that lists at most one image URL
BodyAsDecided(msg, article) ==
    LET images == OrElse(msg.images, <<>>)
        body == OrElse(msg.content, <<>>)
    IN  Len(images) <= 1 =>
          IF Len(images) = 1 /\ Resolvable(Some(images[1]))
          THEN /\ article.content = StrReplace(body, images[1], LocalPath(Some(images[1])))
               /\ hash_for_url(images[1]) \in DOMAIN dest.files
          ELSE article.content = body

\* every message of every thread page of this run has its assets rewritten
\* as decided
RenderedAsDecided ==
    \A id \in written.threads :
        LET msgs == processed_messages(RecordOfStem(dest.threads[id].src))
            articles == dest.threads[id].messages
        IN  /\ Len(articles) = Len(msgs)
            /\ \A m \in DOMAIN msgs :
                  /\ BodyAsDecided(msgs[m], articles[m])
                  /\ Len(articles[m].attachments) = Len(OrElse(msgs[m].attachments, <<>>))
                  /\ \A k \in DOMAIN articles[m].attachments :
                        ItemAsDecided(msgs[m].attachments[1][k], articles[m].attachments[k])

\* C8: for each attachment and each listed image URL the presence of the
\* hashed binary in the store decides the output (copied and linked as
\* ../files/<hashed-name>, or left remote and nothing copied), and the render
\* does not fail.
C8_AssetsRewrittenAndRenderNeverFails ==
    /\ RenderedAsDecided
    /\ exit # "crash"

-----------------------------------------------------------------------------
(* hash_for_url on its own *)

MaxUrlLen == 4

UrlChars == {"a", ".", "/", "?", "&", "=", "-", "\n"}

\* every short string, and the strings with a run of up to six letters after
\* a dot
Urls ==
    Strs(UrlChars, MaxUrlLen)
    \cup { pre \o <<".">> \o [i \in 1..k |-> "a"] \o post :
             pre \in Strs(UrlChars, 1), k \in 0..(HASH_EXT_MAX + 1),
             post \in Strs(UrlChars, 1) }

IdleStore ==
    [threads_dir |-> TRUE, records |-> <<>>, stems |-> <<>>, files_dir |-> FALSE,
     files |-> EmptyMap, profiles_dir |-> FALSE, profiles |-> EmptyMap]

InitHash ==
    /\ arg \in Urls
    /\ ret = None
    /\ pc = "hash_for_url"
    /\ store = IdleStore
    /\ dest = EmptyDest
    /\ snapshot = EmptyDest
    /\ run = 1
    /\ cursor = 1
    /\ threads = <<>>
    /\ profile_lookup = EmptyMap
    /\ folder_sections = <<>>
    /\ index_html = None
    /\ exit = "running"
    /\ written = NothingWritten

CallHashForUrl ==
    /\ pc = "hash_for_url"
    /\ ret' = Some(hash_for_url(arg))
    /\ pc' = "returned"
    /\ UNCHANGED <<store, dest, run, cursor, threads, profile_lookup, folder_sections,
                   index_html, exit, written, snapshot, arg>>

NextHash == CallHashForUrl

SpecHash == InitHash /\ [][NextHash]_vars

\* e is a dot followed by 1 to 5 characters, none of them . / ? & = -
IsExtension(e) ==
    /\ Len(e) >= 2
    /\ Len(e) <= HASH_EXT_MAX + 1
    /\ e[1] = "."
    /\ \A j \in 2..Len(e) : e[j] \notin HASH_EXT_EXCLUDED

\* the lengths n of the extensions that end u
ExtensionsAtEnd(u) ==
    {n \in 2..Len(u) : IsExtension(SubSeq(u, Len(u) - n + 1, Len(u)))}

\* H(p) followed by e, for u = p \o e with e the last n characters
HashedSplit(u, n) ==
    <<sha1_hexdigest(SubSeq(u, 1, Len(u) - n))>> \o SubSeq(u, Len(u) - n + 1, Len(u))

\* C7 as stated: hash_for_url(u) is H(p) followed by e, where u = p + e and
\* e is the extension that ends exactly at the end of u; e is empty and
\* p = u when u has no such suffix.
C7_HashOfPrefixThenExtension ==
    pc = "returned" =>
        IF ExtensionsAtEnd(arg) = {} THEN ret = Some(<<sha1_hexdigest(arg)>>)
        ELSE \A n \in ExtensionsAtEnd(arg) : ret = Some(HashedSplit(arg, n))

ButLast(u) == SubSeq(u, 1, Len(u) - 1)

\* C7 as amended: as stated, except that when no extension ends at the end of
\* u and u is v followed by one final newline, the extension is looked for
\* at the end of v: the result is then H(p) followed by e for v = p + e, and
\* the final newline is neither hashed nor appended.
C7_HashOfPrefixThenExtensionOrBeforeNewline ==
    pc = "returned" =>
        IF ExtensionsAtEnd(arg) # {}
        THEN \A n \in ExtensionsAtEnd(arg) : ret = Some(HashedSplit(arg, n))
        ELSE IF Len(arg) > 0 /\ arg[Len(arg)] = "\n" /\ ExtensionsAtEnd(ButLast(arg)) # {}
             THEN \A n \in ExtensionsAtEnd(ButLast(arg)) :
                     ret = Some(HashedSplit(ButLast(arg), n))
             ELSE ret = Some(<<sha1_hexdigest(arg)>>)

\* hash_for_url has returned for a URL with five letters after the dot and a
\* final newline
C7_Witness ==
    /\ pc = "returned"
    /\ arg = <<"a", ".", "a", "a", "a", "a", "a", "\n">>
    /\ ret = Some(<<sha1_hexdigest(<<"a">>), ".", "a", "a", "a", "a", "a">>)

-----------------------------------------------------------------------------
(* one folder of many threads *)

MaxFolderThreads == 7

\* a message that has only a date
DatedMsg(t) == [BareMsg EXCEPT !.date = Some(<<"ts", t>>)]

\* a message whose date no pattern matches
UnparsedMsg == [BareMsg EXCEPT !.date = Some(<<"?">>)]

DatedShapes ==
    { [thead_id |-> None, folder |-> Some(GE), messages |-> Some(<<UnparsedMsg>>)],
      [thead_id |-> None, folder |-> Some(GE), messages |-> Some(<<DatedMsg(1), DatedMsg(2)>>)],
      [thead_id |-> None, folder |-> Some(GE), messages |-> Some(<<DatedMsg(2), DatedMsg(1)>>)] }

FolderStores ==
    { [IdleStore EXCEPT !.records = rs, !.stems = Ascending(Len(rs))] :
        rs \in UNION {[1..n -> DatedShapes] : n \in 0..MaxFolderThreads} }

InitFolders ==
    /\ store \in FolderStores
    /\ dest = EmptyDest
    /\ snapshot = dest
    /\ pc = "start"
    /\ run = 1
    /\ cursor = 1
    /\ threads = <<>>
    /\ profile_lookup = EmptyMap
    /\ folder_sections = <<>>
    /\ index_html = None
    /\ exit = "running"
    /\ written = NothingWritten
    /\ arg = None
    /\ ret = None

NextFolders ==
    \/ Bootstrap
    \/ ProcessThread
    \/ AssembleFolders
    \/ WriteFolderPage
    \/ WriteIndex

SpecFolders == InitFolders /\ [][NextFolders]_vars

\* the stems of the records with messages that the store puts in a folder
StemsOf(name) == {store.stems[i] : i \in {j \in NonEmptyRecords : FolderOf(j) = name}}

\* the parsed dates of the first and of the last message of a record
FirstDateOf(stem) == parse_date(processed_messages(RecordOfStem(stem))[1].date)

LastDateOf(stem) ==
    parse_date(processed_messages(RecordOfStem(stem))
                   [Len(processed_messages(RecordOfStem(stem)))].date)

\* x comes no later than y when dates ascend: an absent date comes after
\* every date, and the smaller identifier comes first among equals
AscendingWithAbsentLast(dx, idx, dy, idy) ==
    \/ ~IsNone(dx) /\ ~IsNone(dy) /\ dx[1] < dy[1]
    \/ ~IsNone(dx) /\ ~IsNone(dy) /\ dx[1] = dy[1] /\ idx <= idy
    \/ ~IsNone(dx) /\ IsNone(dy)
    \/ IsNone(dx) /\ IsNone(dy) /\ idx <= idy

\* x comes no later than y when dates descend: an absent date comes after
\* every date, and the larger identifier comes first among equals
DescendingWithAbsentLast(dx, idx, dy, idy) ==
    \/ ~IsNone(dx) /\ ~IsNone(dy) /\ dx[1] > dy[1]
    \/ ~IsNone(dx) /\ ~IsNone(dy) /\ dx[1] = dy[1] /\ idx >= idy
    \/ ~IsNone(dx) /\ IsNone(dy)
    \/ IsNone(dx) /\ IsNone(dy) /\ idx >= idy

\* C9: a folder page lists every thread of its folder once, in ascending
\* order of first_date, the threads whose first date is absent or unparsed
\* after all the dated ones, and ties broken by thread id ascending.
C9_FolderPageByFirstDateAscending ==
    \A slug \in written.folders :
        LET page == dest.folders[slug] IN
        /\ RowSrcs(page) = StemsOf(page.name)
        /\ Len(page.rows) = Cardinality(StemsOf(page.name))
        /\ \A k, l \in DOMAIN page.rows :
              k < l => AscendingWithAbsentLast(FirstDateOf(page.rows[k].src), page.rows[k].id,
                                               FirstDateOf(page.rows[l].src), page.rows[l].id)

\* a folder page is written whose listing is not in the order of the store:
\* it has two threads of one first date, two of no first date, and a thread
\* listed before one of a smaller identifier
C9_Witness ==
    \E slug \in written.folders :
        LET rows == dest.folders[slug].rows IN
        /\ \E k, l \in DOMAIN rows :
              k < l /\ ~IsNone(rows[k].first_date) /\ rows[k].first_date = rows[l].first_date
        /\ \E k, l \in DOMAIN rows :
              k < l /\ IsNone(rows[k].first_date) /\ IsNone(rows[l].first_date)
        /\ \E k, l \in DOMAIN rows : k < l /\ rows[k].id > rows[l].id

-----------------------------------------------------------------------------
(* counts *)

\* C11: every written thread page gives as message_count the number of
\* messages of its record, and every row of a written folder page shows
\* max(message_count - 1, 0) replies for the record it lists, which is never
\* negative.
C11_CountsFollowTheRecord ==
    /\ \A id \in written.threads :
          dest.threads[id].message_count =
              Len(processed_messages(RecordOfStem(dest.threads[id].src)))
    /\ \A slug \in written.folders : \A k \in DOMAIN dest.folders[slug].rows :
          LET row == dest.folders[slug].rows[k]
              n == Len(processed_messages(RecordOfStem(row.src)))
          IN  /\ row.replies = (IF n >= 1 THEN n - 1 ELSE 0)
              /\ row.replies >= 0

\* a folder page is written with a thread of two messages, shown with one
\* reply, and a thread of one message, shown with none
C11_Witness ==
    \E slug \in written.folders : \E k, l \in DOMAIN dest.folders[slug].rows :
        LET two == dest.folders[slug].rows[k]
            one == dest.folders[slug].rows[l]
        IN  /\ Len(processed_messages(RecordOfStem(two.src))) = 2
            /\ two.replies = 1
            /\ dest.threads[two.id].message_count = 2
            /\ Len(processed_messages(RecordOfStem(one.src))) = 1
            /\ one.replies = 0

-----------------------------------------------------------------------------
(* strip_html and build_snippet *)

\* the characters of marked that are not the empty string
Unmarked(marked) == SelectSeq(marked, LAMBDA c : c # "")

\* The matches of STRIP_TAG_RE in s, as <<first, last>>. A tag is a <
\* followed by at least one character other than > and then a >, so a match
\* ends at a > and holds no other: it starts at the first < after the
\* previous >, if that < is not next to its >.
TagSpans(s) ==
    LET gts == {i \in DOMAIN s : s[i] = ">"}
        lts == {i \in DOMAIN s : s[i] = "<"}
        opening(g) == {l \in lts : l <= g - 2 /\ \A x \in gts : ~(l < x /\ x < g)}
    IN  {<<MinOf(opening(g)), g>> : g \in {x \in gts : opening(x) # {}}}

\* s with the matches in spans replaced by a space each
ReplaceSpans(s, spans) ==
    Unmarked([i \in DOMAIN s |->
                 IF \E sp \in spans : sp[1] = i THEN " "
                 ELSE IF \E sp \in spans : sp[1] < i /\ i <= sp[2] THEN ""
                 ELSE s[i]])

\* STRIP_TAG_RE.sub(" ", text)
StripTags(s) == ReplaceSpans(s, TagSpans(s))

\* the named references html.unescape knows among the characters used here;
\* each is decoded without its semicolon too
ENTITIES == << <<<<"l","t">>, "<">>, <<<<"g","t">>, ">">>, <<<<"a","m","p">>, "&">> >>

\* s holds pre from position i on
HasAt(s, i, pre) == i + Len(pre) - 1 <= Len(s) /\ SubSeq(s, i, i + Len(pre) - 1) = pre

\* the references that start at the & at position i
EntitiesAt(s, i) == {e \in DOMAIN ENTITIES : HasAt(s, i + 1, ENTITIES[e][1])}

\* the reference at position i, as <<first, last, character>>
EntitySpan(s, i, e) ==
    <<i,
      IF HasAt(s, i + Len(ENTITIES[e][1]) + 1, <<";">>)
      THEN i + Len(ENTITIES[e][1]) + 1 ELSE i + Len(ENTITIES[e][1]),
      ENTITIES[e][2]>>

\* The references in s: no reference holds the & of another.
EntitySpans(s) ==
    { EntitySpan(s, i, CHOOSE e \in EntitiesAt(s, i) : TRUE) :
        i \in {x \in DOMAIN s : s[x] = "&" /\ EntitiesAt(s, x) # {}} }

\* html.unescape(plain)
Unescape(s) ==
    LET spans == EntitySpans(s)
    IN  Unmarked([i \in DOMAIN s |->
                     IF \E sp \in spans : sp[1] = i
                     THEN (CHOOSE sp \in spans : sp[1] = i)[3]
                     ELSE IF \E sp \in spans : sp[1] < i /\ i <= sp[2] THEN ""
                     ELSE s[i]])

\* re.sub(r"\s+", " ", plain): of a run of white space, a space is left
CollapseSpace(s) ==
    Unmarked([i \in DOMAIN s |->
                 IF ~IsSpace(s[i]) THEN s[i]
                 ELSE IF i > 1 /\ IsSpace(s[i - 1]) THEN "" ELSE " "])

strip_html(text) ==
    IF IsNone(text) THEN <<>>
    ELSE StripSpace(CollapseSpace(Unescape(StripTags(text[1]))))

SNIPPET_MAX_LENGTH == 180

ELLIPSIS == <<".", ".", ".">>

SNIPPET_PUNCTUATION == {".", ",", ";"}

\* head.rsplit(" ", 1)[0], never splitting
RSplitWhole(head) == head

\* head.rsplit(" ", 1)[0]
RSplitLastSpace(head) ==
    LET spaces == {i \in DOMAIN head : head[i] = " "}
    IN  IF spaces = {} THEN head ELSE SubSeq(head, 1, MaxOf(spaces) - 1)

\* truncated.rstrip(".,;"), which line 503 guards with endswith
RStripPunctuation(s) ==
    LET kept == {i \in DOMAIN s : s[i] \notin SNIPPET_PUNCTUATION}
    IN  IF kept = {} THEN <<>> ELSE SubSeq(s, 1, MaxOf(kept))

\* lines 499-506, plain being the result of line 498
SnippetOfPlain(plain, max_length) ==
    IF Len(plain) <= max_length THEN plain
    ELSE LET head == SubSeq(plain, 1, max_length)
             split == StripSpace(RSplitLastSpace(head))
             truncated == IF Len(split) = 0 THEN StripSpace(head) ELSE split
         IN  RStripPunctuation(truncated) \o ELLIPSIS

build_snippet(text, max_length) == SnippetOfPlain(strip_html(text), max_length)

MaxSnippetTokens == 4

\* the pieces the bodies are made of: characters, a tag and a reference
SnippetTokens ==
    { <<"a">>, <<" ">>, <<"\n">>, <<".">>, <<",">>, <<";">>, <<">">>,
      <<"<", "b", ">">>, <<"&", "l", "t", ";">> }

RECURSIVE Flatten(_)
Flatten(tokens) == IF Len(tokens) = 0 THEN <<>> ELSE tokens[1] \o Flatten(Tail(tokens))

\* a budget that short bodies exceed
SHORT_BUDGET == 3

MaxEdgeTokens == 2

\* the pieces that surround the budget of a long body
EdgeTokens == { <<"a">>, <<" ">>, <<".">>, <<";">>, <<"<", "b", ">">> }

\* n letters, the second replaced by a space when spaced
Letters(n, spaced) == [i \in 1..n |-> IF spaced /\ i = 2 THEN " " ELSE "a"]

\* a short body with either budget
ShortCall(a) ==
    \E ts \in Strs(SnippetTokens, MaxSnippetTokens) :
        \E n \in {SHORT_BUDGET, SNIPPET_MAX_LENGTH} :
            a = [text |-> Some(Flatten(ts)), max_length |-> n]

\* a body whose stripped text is about as long as the budget of line 497
LongCall(a) ==
    \E n \in (SNIPPET_MAX_LENGTH - 3)..SNIPPET_MAX_LENGTH, spaced \in BOOLEAN, m \in 0..2 :
        \E ts \in Strs(EdgeTokens, MaxEdgeTokens) :
            a = [text |-> Some(Letters(n, spaced) \o Flatten(ts) \o Letters(m, FALSE)),
                 max_length |-> SNIPPET_MAX_LENGTH]

InitSnippet ==
    /\ \/ arg = [text |-> None, max_length |-> SNIPPET_MAX_LENGTH]
       \/ ShortCall(arg)
       \/ LongCall(arg)
    /\ ret = None
    /\ pc = "build_snippet"
    /\ store = IdleStore
    /\ dest = EmptyDest
    /\ snapshot = EmptyDest
    /\ run = 1
    /\ cursor = 1
    /\ threads = <<>>
    /\ profile_lookup = EmptyMap
    /\ folder_sections = <<>>
    /\ index_html = None
    /\ exit = "running"
    /\ written = NothingWritten

CallBuildSnippet ==
    /\ pc = "build_snippet"
    /\ ret' = Some(build_snippet(arg.text, arg.max_length))
    /\ pc' = "returned"
    /\ UNCHANGED <<store, dest, run, cursor, threads, profile_lookup, folder_sections,
                   index_html, exit, written, snapshot, arg>>

NextSnippet == CallBuildSnippet

SpecSnippet == InitSnippet /\ [][NextSnippet]_vars

\* the text before the marker that the budget allows for a stripped text
\* longer than it: up to the last space among the first `budget`
\* characters, or all of these characters when none is a space, without
\* the '.', ',' and ';' at its end
CutAtBudget(plain, budget) ==
    LET spaces == {k \in 1..budget : plain[k] = " "}
        cut == IF spaces = {} THEN SubSeq(plain, 1, budget)
               ELSE SubSeq(plain, 1, MaxOf(spaces) - 1)
        ends == {k \in DOMAIN cut : \A j \in k..Len(cut) : cut[j] \in SNIPPET_PUNCTUATION}
    IN  IF ends = {} THEN cut ELSE SubSeq(cut, 1, MinOf(ends) - 1)

\* C12: when the stripped text of the body is no longer than the budget
\* (180), the snippet is the stripped text itself, without the marker;
\* when it is longer, the snippet is at most `budget` characters followed
\* by the marker "...", these characters being the stripped text cut at
\* the last space among its first `budget` characters (at the budget when
\* none is a space) with the '.', ',' and ';' at the end removed.
C12_SnippetWithinBudget ==
    pc = "returned" =>
        LET plain == strip_html(arg.text)
            snippet == ret[1]
        IN  IF Len(plain) <= arg.max_length
            THEN snippet = plain
            ELSE /\ Len(snippet) >= Len(ELLIPSIS)
                 /\ SubSeq(snippet, Len(snippet) - Len(ELLIPSIS) + 1, Len(snippet)) = ELLIPSIS
                 /\ Len(snippet) - Len(ELLIPSIS) <= arg.max_length
                 /\ SubSeq(snippet, 1, Len(snippet) - Len(ELLIPSIS))
                        = CutAtBudget(plain, arg.max_length)

\* build_snippet has returned, with the budget of 180, for a body whose
\* stripped text is longer: the text was cut at a space and lost a '.' or
\* ';' before the marker was appended
C12_Witness ==
    /\ pc = "returned"
    /\ arg.max_length = SNIPPET_MAX_LENGTH
    /\ Len(strip_html(arg.text)) > SNIPPET_MAX_LENGTH
    /\ \E k \in 3..SNIPPET_MAX_LENGTH :
          /\ strip_html(arg.text)[k] = " "
          /\ strip_html(arg.text)[k - 1] \in SNIPPET_PUNCTUATION
          /\ \A j \in (k + 1)..SNIPPET_MAX_LENGTH : strip_html(arg.text)[j] # " "
          /\ Len(ret[1]) < k - 1 + Len(ELLIPSIS)

-----------------------------------------------------------------------------
(* format_name_html on its own *)

MaxNameTokens == 4

\* the pieces the names are made of
NameTokens ==
    { <<"A">>, <<" ">>, <<"(">>, <<")">>, <<" ", "(", "g", ")">>,
      SPACE_UNREAD, <<" ", "U", "n", "r", "e", "a", "d">> }

\* the statuses: none, empty, unread in two spellings, and another word
NameStatuses ==
    { None, Some(<<>>), Some(UNREAD), Some(<<"U","n","r","e","a","d">>), Some(<<"r","e","a","d">>) }

InitName ==
    /\ \/ \E status \in NameStatuses : arg = [name |-> None, status |-> status]
       \/ \E ts \in Strs(NameTokens, MaxNameTokens), status \in NameStatuses :
             arg = [name |-> Some(Flatten(ts)), status |-> status]
    /\ ret = None
    /\ pc = "format_name_html"
    /\ store = IdleStore
    /\ dest = EmptyDest
    /\ snapshot = EmptyDest
    /\ run = 1
    /\ cursor = 1
    /\ threads = <<>>
    /\ profile_lookup = EmptyMap
    /\ folder_sections = <<>>
    /\ index_html = None
    /\ exit = "running"
    /\ written = NothingWritten

CallFormatNameHtml ==
    /\ pc = "format_name_html"
    /\ ret' = Some(format_name_html(arg.name, AUTHOR_CLASS, arg.status))
    /\ pc' = "returned"
    /\ UNCHANGED <<store, dest, run, cursor, threads, profile_lookup, folder_sections,
                   index_html, exit, written, snapshot, arg>>

NextName == CallFormatNameHtml

SpecName == InitName /\ [][NextName]_vars

\* the name without the white space around it
TrimmedName == StripSpace(OrElse(arg.name, <<>>))

\* no status was supplied and the name ends with a space and the word
\* unread, in any case of its letters
SuffixDetached == ~Truthy(arg.status) /\ EndsWith(Lower(TrimmedName), SPACE_UNREAD)

\* the name after the first step
Remainder ==
    IF SuffixDetached
    THEN RStripSpace(SubSeq(TrimmedName, 1, Len(TrimmedName) - Len(SPACE_UNREAD)))
    ELSE TrimmedName

\* the segment of the remainder that starts at its first '('
TrailingSegment ==
    SubSeq(Remainder, MinOf({i \in DOMAIN Remainder : Remainder[i] = "("}), Len(Remainder))

\* the remainder ends with ')' and that segment has as many '(' as ')'
EndsInBalancedGroup ==
    /\ EndsWith(Remainder, <<")">>)
    /\ CountOf(Remainder, "(") > 0
    /\ CountOf(TrailingSegment, "(") = CountOf(TrailingSegment, ")")

\* C13: for a name that is not empty, the suffix " unread" is detached and
\* the status becomes "unread" when no status was supplied, and a supplied
\* status is kept with nothing detached; then the remainder, if it ends
\* with ')' and the segment from its first '(' is balanced, gives as primary
\* name the trimmed text before the first '(' and as extra that segment,
\* and otherwise is the primary name, with no extra.
C13_StatusThenParenthetical ==
    (pc = "returned" /\ Len(TrimmedName) > 0) =>
        /\ ret[1].status =
              (IF SuffixDetached THEN Some(UNREAD)
               ELSE IF ~Truthy(arg.status) THEN None
               ELSE IF Lower(arg.status[1]) = UNREAD THEN Some(UNREAD)
               ELSE arg.status)
        /\ IF EndsInBalancedGroup
           THEN /\ ret[1].primary =
                      StripSpace(SubSeq(Remainder, 1, Len(Remainder) - Len(TrailingSegment)))
                /\ ret[1].extra = Some(TrailingSegment)
           ELSE /\ ret[1].primary = Remainder
                /\ ret[1].extra = None

\* C14: a name that is empty or absent is rendered as "Unknown", with no
\* extra and no status, whatever status was supplied.
C14_UnknownWithoutDecoration ==
    (pc = "returned" /\ ~Truthy(arg.name)) =>
        /\ ret[1].primary = UNKNOWN
        /\ ret[1].extra = None
        /\ ret[1].status = None

-----------------------------------------------------------------------------
(* the thread pages *)

\* the messages of the record a page was made from
MessagesOf(page) == processed_messages(RecordOfStem(page.src))

\* the date of a message is absent or matches no pattern
Undated(msg) == IsNone(parse_date(msg.date))

PLACEHOLDERS == {UNKNOWN, UNKNOWN_ID, N_A}

\* the date cells of the written folder pages and the First Posted and Last
\* Updated of the written thread pages show a placeholder for a thread
\* whose timestamp is absent or unparsed
ThreadDatesHavePlaceholders ==
    /\ \A slug \in written.folders : \A k \in DOMAIN dest.folders[slug].rows :
          IsNone(FirstDateOf(dest.folders[slug].rows[k].src)) =>
              dest.folders[slug].rows[k].date \in PLACEHOLDERS
    /\ \A id \in written.threads :
          /\ IsNone(FirstDateOf(dest.threads[id].src)) =>
                dest.threads[id].first_display \in PLACEHOLDERS
          /\ IsNone(LastDateOf(dest.threads[id].src)) =>
                dest.threads[id].last_display \in PLACEHOLDERS

\* C15: on the written pages the folder-table date cell, the First Posted
\* and Last Updated of a thread and the header of a message each show the
\* placeholder "Unknown" or "N/A" when the timestamp of the thread or of
\* the message is absent or its raw date matches no pattern.
C15_PlaceholderForMissingTimestamp ==
    /\ ThreadDatesHavePlaceholders
    /\ \A id \in written.threads : \A i \in DOMAIN dest.threads[id].messages :
          Undated(MessagesOf(dest.threads[id])[i]) =>
              /\ ~IsNone(dest.threads[id].messages[i].timestamp)
              /\ dest.threads[id].messages[i].timestamp[1] \in PLACEHOLDERS

\* C16: a written thread page has the messages of its record in the order
\* of the record: the i-th article is made from the i-th message, shows i
\* of N with N the number of messages, which is the Messages count of the
\* page, and its indicator links to the anchor of that same article.
C16_MessagesInRecordOrder ==
    \A id \in written.threads :
        LET page == dest.threads[id]
            msgs == MessagesOf(page)
        IN  /\ Len(page.messages) = Len(msgs)
            /\ page.message_count = Len(msgs)
            /\ \A i \in DOMAIN page.messages :
                  /\ page.messages[i].index = i
                  /\ page.messages[i].total = Len(msgs)
                  /\ page.messages[i].seq_href = page.messages[i].anchor
                  /\ page.messages[i].mid = OrElse(msgs[i].id, UNKNOWN_ID)
                  /\ page.messages[i].posted_raw = OrElse(msgs[i].date, <<>>)
                  /\ page.messages[i].raw_author = OrElse(msgs[i].from, UNKNOWN)

\* a thread page is written whose first message is dated later than its
\* second: they are shown as 1 of 2 and 2 of 2 in the order of the record
C16_Witness ==
    \E id \in written.threads :
        LET page == dest.threads[id]
            msgs == MessagesOf(page)
        IN  /\ Len(msgs) = 2
            /\ ~Undated(msgs[1])
            /\ ~Undated(msgs[2])
            /\ parse_date(msgs[1].date)[1] > parse_date(msgs[2].date)[1]
            /\ page.messages[1].posted_dt = parse_date(msgs[1].date)
            /\ page.messages[1].index = 1
            /\ page.messages[2].posted_dt = parse_date(msgs[2].date)
            /\ page.messages[2].index = 2
            /\ page.messages[2].total = 2

\* an identifier with every '.' replaced by '-'
Dashed(mid) == [i \in DOMAIN mid |-> IF mid[i] = "." THEN "-" ELSE mid[i]]

\* C17: on a written thread page the anchor of a message is "msg-" and
\* its identifier ("unknown" when absent) with every '.' replaced by '-';
\* a message with a non-empty in_reply_to has a back-link to the anchor
\* made in the same way from in_reply_to, whether or not a message of that
\* identifier is on the page, and it is the anchor of every message of the
\* page that has that identifier; a message without in_reply_to has no
\* back-link.
C17_AnchorsAndBackLinks ==
    \A id \in written.threads :
        LET page == dest.threads[id]
            msgs == MessagesOf(page)
        IN  \A i \in DOMAIN page.messages :
                /\ page.messages[i].anchor = MSG_DASH \o Dashed(OrElse(msgs[i].id, UNKNOWN_ID))
                /\ IF Truthy(msgs[i].in_reply_to)
                   THEN /\ ~IsNone(page.messages[i].reply_to)
                        /\ page.messages[i].reply_to[1].href =
                               MSG_DASH \o Dashed(msgs[i].in_reply_to[1])
                        /\ \A j \in DOMAIN msgs :
                               msgs[j].id = msgs[i].in_reply_to =>
                                   page.messages[i].reply_to[1].href = page.messages[j].anchor
                   ELSE IsNone(page.messages[i].reply_to)

\* a thread page is written on which the second message links back to
\* the anchor of the first, whose identifier has a '.', and another is
\* written with a back-link to a message that is not on the page
C17_Witness ==
    /\ \E id \in written.threads :
          LET page == dest.threads[id]
              msgs == MessagesOf(page)
          IN  /\ Len(msgs) = 2
              /\ Truthy(msgs[1].id)
              /\ "." \in Range(msgs[1].id[1])
              /\ msgs[2].in_reply_to = msgs[1].id
              /\ page.messages[2].reply_to[1].href = page.messages[1].anchor
              /\ "." \notin Range(page.messages[1].anchor)
              /\ IsNone(page.messages[1].reply_to)
    /\ \E id \in written.threads :
          LET page == dest.threads[id]
              msgs == MessagesOf(page)
          IN  \E i \in DOMAIN msgs :
                  /\ Truthy(msgs[i].in_reply_to)
                  /\ \A j \in DOMAIN msgs : msgs[j].id # msgs[i].in_reply_to
                  /\ ~IsNone(page.messages[i].reply_to)

====
